---- MODULE Spec2Model ----
(***************************************************************************)
(* Model of the chat exporter: the read-only accessor VSCDBQuery           *)
(* (src/src/vscdb.py) over one state.vscdb store, and the discover and     *)
(* export loops of the command line (src/chat.py) over several stores.     *)
(*                                                                         *)
(* Python values are records [t, v]: t is the Python type, v the payload.  *)
(* A dict's payload is a function from its keys to values, so that the     *)
(* code's in-band error test ("error" in d) is a test on DOMAIN.           *)
(***************************************************************************)
EXTENDS Integers, Sequences, FiniteSets, TLC

\* ---------------------------------------------------------------- bounds
\* Longest allComposers list of a metadata blob.
MaxComposers == 2
\* Most state.vscdb files found by one command line run.
MaxDbs == 2

\* ------------------------------------------------------ Python values
PyNone == [t |-> "None", v |-> 0]
PyNum(n) == [t |-> "int", v |-> n]
PyStr(s) == [t |-> "str", v |-> s]
PyList(q) == [t |-> "list", v |-> q]
PyDict(f) == [t |-> "dict", v |-> f]
EmptyDict == PyDict([k \in {} |-> PyNone])

\* bool(x): None, 0, "", [] and {} are falsy.
Truthy(x) ==
    CASE x.t = "None" -> FALSE
      [] x.t = "int" -> x.v # 0
      [] x.t = "str" -> x.v # ""
      [] x.t = "list" -> x.v # <<>>
      [] x.t = "dict" -> DOMAIN x.v # {}
      [] OTHER -> TRUE

\* isinstance(x, dict) and "error" in x
IsErrorDict(x) == x.t = "dict" /\ "error" \in DOMAIN x.v

\* x.get(k): defined on a dict only (see HasGet).
DictGet(x, k) == IF k \in DOMAIN x.v THEN x.v[k] ELSE PyNone
\* x.get(k, d)
DictGetDefault(x, k, d) == IF k \in DOMAIN x.v THEN x.v[k] ELSE d
\* Only a dict has a .get attribute; on any other value the call raises
\* AttributeError.
HasGet(x) == x.t = "dict"

\* Some enumeration of a finite set (the order of a dict's keys).
RECURSIVE SetToSeq(_)
SetToSeq(S) ==
    IF S = {} THEN <<>>
    ELSE LET x == CHOOSE y \in S : TRUE IN <<x>> \o SetToSeq(S \ {x})

\* for item in x: a list yields its elements, a str its characters (strs), a
\* dict its keys (strs); None and numbers raise TypeError (Iterable is FALSE).
\* The strs of the model hold at most one character.
Iterable(x) == x.t \in {"list", "str", "dict"}
IterItems(x) ==
    CASE x.t = "list" -> x.v
      [] x.t = "str" -> IF x.v = "" THEN <<>> ELSE <<PyStr(x.v)>>
      [] x.t = "dict" -> [i \in 1..Cardinality(DOMAIN x.v) |->
                            PyStr(SetToSeq(DOMAIN x.v)[i])]
      [] OTHER -> <<>>

\* ------------------------------------------------------------ the store
\* config.yml defaults (the three fixed keys).
aichat_query_key == "composer.composerData"
prompts_key == "aiService.prompts"
generations_key == "aiService.generations"
Keys == {aichat_query_key, prompts_key, generations_key}

\* The value column of one row of ItemTable.
\*   col = "norow": no row has the key;  "NULL": the row's value is NULL;
\*   "int": a value that is neither BLOB nor TEXT;
\*   "bytes": a BLOB, utf8 tells whether it is valid UTF-8;
\*   "str": TEXT, utf8 tells whether sqlite3 can decode it.
\* The text, when it decodes, is a JSON document (json) or is not parseable
\* (wellformed = FALSE).
Raw(col, utf8, wellformed, json) ==
    [col |-> col, utf8 |-> utf8, wellformed |-> wellformed, json |-> json]
NoRow == Raw("norow", TRUE, TRUE, PyNone)
NullValue == Raw("NULL", TRUE, TRUE, PyNone)
IntValue == Raw("int", TRUE, TRUE, PyNone)
BadUtf8Bytes == Raw("bytes", FALSE, TRUE, PyNone)
BadUtf8Text == Raw("str", FALSE, TRUE, PyNone)
MalformedText == Raw("str", TRUE, FALSE, PyNone)
MalformedBytes == Raw("bytes", TRUE, FALSE, PyNone)
JsonText(j) == Raw("str", TRUE, TRUE, j)
JsonBytes(j) == Raw("bytes", TRUE, TRUE, j)

\* One state.vscdb file: path names it; openable tells whether
\* sqlite3.connect succeeds (the file exists and can be opened read-only);
\* readable whether a SELECT on ItemTable succeeds (the file is a database
\* holding that table); rows gives the value column of each fixed key.
Store(path, openable, readable, meta, prompts, gens) ==
    [path |-> path, openable |-> openable, readable |-> readable,
     rows |-> [k \in Keys |->
                 IF k = aichat_query_key THEN meta
                 ELSE IF k = prompts_key THEN prompts ELSE gens]]

\* ------------------------------------------------------------ VSCDBQuery
\* The connection state of an instance: conn and cursor, FALSE for None.
Closed == [conn |-> FALSE, cursor |-> FALSE]
Opened == [conn |-> TRUE, cursor |-> TRUE]
\* not (not self.conn or not self.cursor)
Active(c) == c.conn /\ c.cursor

\* An exception leaving a method.
Raise(name) == [t |-> "raise", v |-> name]
Raised(x) == x.t = "raise"

\* The error dicts of vscdb.py; the text of the caught exception is left out
\* of the message.
ErrorDict(msg) == PyDict([error |-> PyStr(msg)])
ErrorDictPath(msg, s) == PyDict([error |-> PyStr(msg), db_path |-> PyStr(s.path)])
ErrorDictKey(msg, key) == PyDict([error |-> PyStr(msg), key_name |-> PyStr(key)])
ErrorDictDetails(msg, key) ==
    PyDict([error |-> PyStr(msg), details |-> PyStr("details"),
            key_name |-> PyStr(key)])

\* _initialize_connection: both attributes set, or both None on failure.
initialize_connection(s) == IF s.openable THEN Opened ELSE Closed

\* A close that sets conn to None and leaves cursor as it is.
close_connection_KeepsCursor(c) == [conn |-> FALSE, cursor |-> c.cursor]

\* close_connection
close_connection(c) == Closed

\* _execute_query for "SELECT value FROM ItemTable WHERE [key] = ?":
\* the first row, None, or an error dict.
execute_query(s, c, key) ==
    LET c1 == IF ~Active(c) THEN initialize_connection(s) ELSE c IN
    IF ~Active(c1)
    THEN [c |-> c1, val |-> ErrorDict("DB connection failed to re-initialize")]
    ELSE IF ~s.readable
    THEN [c |-> c1, val |-> ErrorDictPath("file is not a database", s)]
    ELSE IF s.rows[key].col = "str" /\ ~s.rows[key].utf8
    THEN [c |-> c1, val |-> ErrorDictPath("Could not decode to UTF-8 column", s)]
    ELSE IF s.rows[key].col = "norow"
    THEN [c |-> c1, val |-> PyNone]
    ELSE [c |-> c1, val |-> [t |-> "row", v |-> s.rows[key]]]

\* json.loads(value_blob.decode("utf-8")) with the except clauses around it.
decode_value(raw, key) ==
    IF raw.col \notin {"bytes", "str"}
    THEN ErrorDictDetails("UnexpectedValueType", key)
    ELSE IF raw.col = "bytes" /\ ~raw.utf8
    THEN ErrorDictDetails("UnicodeDecodeError", key)
    ELSE IF ~raw.wellformed
    THEN ErrorDictDetails("JSONDecodeError", key)
    ELSE raw.json

\* get_json_value_for_key once the connection is active; q is what
\* _execute_query returned.
DecodeRow(q, key) ==
    IF IsErrorDict(q.val) THEN q
    ELSE IF q.val.t = "row" /\ q.val.v.col # "NULL"
    THEN [c |-> q.c, val |-> decode_value(q.val.v, key)]
    ELSE [c |-> q.c, val |-> PyNone]

\* A read that closes the connection again when it had to open it.
get_json_value_for_key_Scoped(s, c, key) ==
    IF Active(c) THEN DecodeRow(execute_query(s, c, key), key)
    ELSE IF ~Active(initialize_connection(s))
    THEN [c |-> initialize_connection(s),
          val |-> ErrorDictKey(
              "Failed to initialize DB connection for get_json_value_for_key", key)]
    ELSE [c |-> Closed,
          val |-> DecodeRow(execute_query(s, initialize_connection(s), key), key).val]

\* A read that does not re-open a closed connection.
get_json_value_for_key_NoReopen(s, c, key) ==
    IF ~Active(c)
    THEN [c |-> c,
          val |-> ErrorDictKey(
              "Failed to initialize DB connection for get_json_value_for_key", key)]
    ELSE DecodeRow(execute_query(s, c, key), key)

\* get_json_value_for_key
get_json_value_for_key(s, c, key) ==
    IF ~Active(c) /\ ~Active(initialize_connection(s))
    THEN [c |-> initialize_connection(s),
          val |-> ErrorDictKey(
              "Failed to initialize DB connection for get_json_value_for_key", key)]
    ELSE DecodeRow(
             execute_query(s, IF ~Active(c) THEN initialize_connection(s) ELSE c, key),
             key)

\* A filter that tests the two keys for presence and not their values.
PassesFilterKeysPresent(composer) ==
    "composerId" \in DOMAIN composer.v /\ "name" \in DOMAIN composer.v

\* The filter of the catalog load:
\* composer.get("composerId") and composer.get("name")
PassesFilter(composer) ==
    Truthy(DictGet(composer, "composerId")) /\ Truthy(DictGet(composer, "name"))

\* The descriptor appended for a composer that passes the filter.
SessionMeta(composer) ==
    PyDict([composerId |-> composer.v["composerId"],
            name |-> composer.v["name"],
            lastUpdatedAt |-> DictGet(composer, "lastUpdatedAt"),
            createdAt |-> DictGet(composer, "createdAt")])

\* The loop over allComposers: the sessions collected, or the exception that
\* ends the loop (a composer without .get), which discards them.
RECURSIVE CollectSessions(_, _)
CollectSessions(items, sessions) ==
    IF items = <<>> THEN PyList(sessions)
    ELSE IF ~HasGet(Head(items)) THEN Raise("AttributeError")
    ELSE CollectSessions(
             Tail(items),
             IF PassesFilter(Head(items))
             THEN Append(sessions, SessionMeta(Head(items))) ELSE sessions)

\* The except clauses around the loop over allComposers; r is what the loop
\* gave.
CatchParseError(s, r) ==
    IF Raised(r) THEN ErrorDictPath("Error parsing allComposers from metadata", s)
    ELSE r

\* The iteration over composer_data_json.get("allComposers", []).
ParseAllComposers(s, all) ==
    IF ~Iterable(all)
    THEN ErrorDictPath("Unexpected composer metadata structure", s)
    ELSE CatchParseError(s, CollectSessions(IterItems(all), <<>>))

\* The try block of get_all_chat_sessions_metadata with its except clauses.
ParseComposers(s, composer_data_json) ==
    IF ~HasGet(composer_data_json)
    THEN ErrorDictPath("Error parsing allComposers from metadata", s)
    ELSE ParseAllComposers(
             s, DictGetDefault(composer_data_json, "allComposers", PyList(<<>>)))

\* A catalog load that does not take a stored object with an 'error' key
\* for an error.
MetadataFromIgnoringErrorKey(s, g) ==
    IF ~Truthy(g.val) THEN g
    ELSE [c |-> g.c, val |-> ParseComposers(s, g.val)]

\* get_all_chat_sessions_metadata after the read of the metadata key; g is
\* what get_json_value_for_key returned.
MetadataFrom(s, g) ==
    IF ~Truthy(g.val) \/ IsErrorDict(g.val)
    THEN g
    ELSE [c |-> g.c, val |-> ParseComposers(s, g.val)]

\* get_all_chat_sessions_metadata
get_all_chat_sessions_metadata(s, c) ==
    IF ~Active(c)
    THEN [c |-> c, val |-> ErrorDict("DB connection not active for metadata retrieval")]
    ELSE MetadataFrom(s, get_json_value_for_key(s, c, aichat_query_key))

\* get_all_prompts_raw / get_all_generations_raw: the list, or None.
RawListOrNone(json) ==
    IF json.t = "None" THEN PyNone
    ELSE IF IsErrorDict(json) THEN PyNone
    ELSE IF json.t = "list" THEN json
    ELSE PyNone

RawFrom(g) == [c |-> g.c, val |-> RawListOrNone(g.val)]

get_all_prompts_raw(s, c) == RawFrom(get_json_value_for_key(s, c, prompts_key))

get_all_generations_raw(s, c) ==
    RawFrom(get_json_value_for_key(s, c, generations_key))

\* self.get_chat_session_details(composer_id): VSCDBQuery defines no such
\* method, so evaluating the attribute raises AttributeError.
get_chat_session_details(s, c, composer_id) == Raise("AttributeError")

\* The chat_entry built for one session from its details.
ChatEntry(s, session_meta, session_details) ==
    LET base == [composerId |-> session_meta.v["composerId"],
                 name |-> session_meta.v["name"],
                 lastUpdatedAt |-> DictGet(session_meta, "lastUpdatedAt"),
                 createdAt |-> DictGet(session_meta, "createdAt"),
                 db_path |-> PyStr(s.path),
                 session_data |-> PyNone,
                 error |-> PyNone] IN
    IF IsErrorDict(session_details)
    THEN PyDict([base EXCEPT !.error = PyStr("Failed to get session details")])
    ELSE IF session_details.t = "None"
    THEN PyDict([base EXCEPT
                   !.error = PyStr("No chat session data found for this composerId.")])
    ELSE PyDict([base EXCEPT !.session_data = session_details])

\* One pass of the loop of query_all_chat_data, given what
\* get_chat_session_details returned or raised.
RECURSIVE ProcessSessions(_, _, _, _)
ProcessOne(s, c, metas, processed_chats, session_details) ==
    IF Raised(session_details) THEN session_details
    ELSE ProcessSessions(s, c, Tail(metas),
             Append(processed_chats, ChatEntry(s, Head(metas), session_details)))

\* A loop that gives every descriptor an entry with a top-level list of
\* turns.
ProcessSessionsWithTurns(s, c, metas, processed_chats) ==
    PyList([i \in 1..Len(metas) |->
              PyDict([composerId |-> metas[i].v["composerId"],
                      name |-> metas[i].v["name"],
                      turns |-> PyList(<<PyDict([request |-> PyStr("hi"),
                                                 response |-> PyStr("hello")])>>)])])

\* The loop of query_all_chat_data over the descriptors: processed_chats, or
\* the exception that leaves the loop.
ProcessSessions(s, c, metas, processed_chats) ==
    IF metas = <<>> THEN PyList(processed_chats)
    ELSE ProcessOne(s, c, metas, processed_chats,
                    get_chat_session_details(s, c, Head(metas).v["composerId"]))

\* if opened_connection_locally: self.close_connection()
CloseIfLocal(opened_connection_locally, c) ==
    IF opened_connection_locally THEN close_connection(c) ELSE c

\* The end of query_all_chat_data; r is what the loop gave. An exception
\* leaves the method before the connection is closed.
QueryFinish(local, c, r) ==
    IF Raised(r) THEN [c |-> c, val |-> r]
    ELSE [c |-> CloseIfLocal(local, c), val |-> r]

\* query_all_chat_data from the metadata on; m is what
\* get_all_chat_sessions_metadata returned.
QueryFrom(s, local, m) ==
    IF IsErrorDict(m.val)
    THEN [c |-> CloseIfLocal(local, m.c),
          val |-> PyList(<<ErrorDictPath(
                      "Metadata fetch failed: " \o m.val.v["error"].v, s)>>)]
    ELSE IF ~Truthy(m.val)
    THEN [c |-> CloseIfLocal(local, m.c), val |-> PyList(<<>>)]
    ELSE QueryFinish(local, m.c, ProcessSessions(s, m.c, m.val.v, <<>>))

\* A query that does not re-open a closed connection.
query_all_chat_data_NoReopen(s, c) ==
    IF ~Active(c)
    THEN [c |-> c,
          val |-> PyList(<<ErrorDictPath("Failed to initialize DB connection", s)>>)]
    ELSE QueryFrom(s, FALSE, get_all_chat_sessions_metadata(s, c))

\* query_all_chat_data: the connection it leaves and what it returns (a list)
\* or raises.
query_all_chat_data(s, c) ==
    IF ~Active(c) /\ ~initialize_connection(s).conn
    THEN [c |-> initialize_connection(s),
          val |-> PyList(<<ErrorDictPath("Failed to initialize DB connection", s)>>)]
    ELSE QueryFrom(s, ~Active(c),
             get_all_chat_sessions_metadata(
                 s, IF ~Active(c) THEN initialize_connection(s) ELSE c))

\* ------------------------------------------------- stores of the model
\* Entries of an allComposers list.
CompA == PyDict([composerId |-> PyStr("a"), name |-> PyStr("Foo")])
CompB == PyDict([composerId |-> PyStr("b"), name |-> PyStr("Bar"),
                 createdAt |-> PyNum(1)])
CompNoTitle == PyDict([composerId |-> PyStr("b")])
CompNoId == PyDict([name |-> PyStr("Foo")])
CompEmptyTitle == PyDict([composerId |-> PyStr("a"), name |-> PyStr("")])
CompNotObject == PyNum(5)
Composers == {CompA, CompB, CompNoTitle, CompNoId, CompEmptyTitle, CompNotObject}

ComposerLists == UNION {[1..n -> Composers] : n \in 0..MaxComposers}

\* JSON documents under the metadata key.
MetaJson ==
    {PyNone, PyNum(0), PyNum(5), PyStr("x"), PyList(<<>>), PyList(<<CompA>>),
     EmptyDict,
     PyDict([other |-> PyNum(1)]),
     PyDict([error |-> PyStr("x")]),
     PyDict([error |-> PyStr("x"), allComposers |-> PyList(<<CompA>>)]),
     PyDict([allComposers |-> PyNone]),
     PyDict([allComposers |-> PyNum(5)]),
     PyDict([allComposers |-> PyStr("")]),
     PyDict([allComposers |-> PyStr("x")]),
     PyDict([allComposers |-> EmptyDict]),
     PyDict([allComposers |-> PyDict([k |-> PyNum(1)])])}
    \cup {PyDict([allComposers |-> PyList(l)]) : l \in ComposerLists}

MetaRaws ==
    {NoRow, NullValue, IntValue, BadUtf8Bytes, BadUtf8Text, MalformedText,
     MalformedBytes, JsonBytes(PyDict([allComposers |-> PyList(<<CompA, CompB>>)]))}
    \cup {JsonText(j) : j \in MetaJson}

\* Values under the prompts key and under the generations key.
Prompt == PyDict([text |-> PyStr("hi")])
Generation == PyDict([textDescription |-> PyStr("hello")])
\* A prompt and a generation that name the session they belong to.
PromptOfA == PyDict([text |-> PyStr("hi"), composerId |-> PyStr("a"),
                     unixMs |-> PyNum(1)])
GenerationOfA == PyDict([textDescription |-> PyStr("hello"),
                         composerId |-> PyStr("a"), unixMs |-> PyNum(2)])
PromptRaws ==
    {NoRow, BadUtf8Bytes, MalformedText, JsonText(PyList(<<>>)),
     JsonText(PyList(<<Prompt>>)), JsonText(EmptyDict), JsonText(PyNum(5)),
     JsonText(PyList(<<PromptOfA>>)),
     JsonText(PyList(<<Prompt, Prompt, Prompt>>)),
     JsonText(PyList(<<PyNum(5), Prompt>>))}
GenerationRaws ==
    {NoRow, MalformedText, JsonText(PyList(<<Generation>>)),
     JsonText(PyList(<<GenerationOfA>>)),
     JsonText(PyList(<<Generation, Generation>>))}

Missing(path) == Store(path, FALSE, FALSE, NoRow, NoRow, NoRow)
Corrupt(path) == Store(path, TRUE, FALSE, NoRow, NoRow, NoRow)
Stores ==
    {Missing("db"), Corrupt("db")}
    \cup {Store("db", TRUE, TRUE, m, p, g) :
            m \in MetaRaws, p \in PromptRaws, g \in GenerationRaws}

\* ------------------------------------------------------------ the state
VARIABLES
    store,      \* the state.vscdb file the VSCDBQuery instance was built on
    conn,       \* self.conn and self.cursor of the instance
    ret,        \* the last call on the instance and what it returned
    runs,       \* what the first calls of query_all_chat_data on the instance gave
    cmd,        \* the command of the command line run
    pc,         \* where the run is
    db_files,   \* the state.vscdb files found, in discovery order
    limit,      \* --limit of discover, --limit-db of export
    db_files_to_process,  \* export: the files the loop goes over
    processed_count,      \* files the loop has been through
    total,      \* total_discovered_chats / total_exported_sessions
    console,    \* what console.print has written
    db_path_str,  \* export: the state.vscdb file named on the command line
    reply       \* the last request to the MCP server and what it returned

apiVars == <<store, conn, ret, runs>>
runVars == <<cmd, pc, db_files, limit, db_files_to_process, processed_count,
             total, console, db_path_str, reply>>
vars == <<store, conn, ret, runs, cmd, pc, db_files, limit, db_files_to_process,
          processed_count, total, console, db_path_str, reply>>

\* A call record: active tells whether the connection was active at the call.
Call(op, key, active, val) == [op |-> op, key |-> key, active |-> active, val |-> val]
NoCall == Call("none", "", FALSE, PyNone)

\* A request to a tool of the MCP server and what the tool returned.
Reply(tool, db_identifier, session_id, val) ==
    [tool |-> tool, db_identifier |-> db_identifier, session_id |-> session_id,
     val |-> val]
NoReply == Reply("none", 0, "", PyNone)

\* No command line run.
RunIdle ==
    /\ cmd = "none" /\ pc = "idle" /\ db_files = <<>> /\ limit = 0
    /\ db_files_to_process = <<>> /\ processed_count = 0 /\ total = 0
    /\ console = <<>> /\ db_path_str = "" /\ reply = NoReply

\* Calls of query_all_chat_data on one instance whose results are kept in
\* runs.
MaxRuns == 2

\* runs after a call of op that gave val.
RunsAfter(op, val) ==
    IF op = "query_all_chat_data" /\ Len(runs) < MaxRuns
    THEN Append(runs, val) ELSE runs

\* VSCDBQuery(db_path): __init__ opens the connection.
Init ==
    /\ store \in Stores
    /\ conn = initialize_connection(store)
    /\ ret = NoCall
    /\ runs = <<>>
    /\ RunIdle

\* A call on the instance that returned r.
Returns(op, key, r) ==
    /\ conn' = r.c
    /\ ret' = Call(op, key, Active(conn), r.val)
    /\ runs' = RunsAfter(op, r.val)
    /\ UNCHANGED <<store, runVars>>

GetJsonValueForKey ==
    /\ pc = "idle"
    /\ \E key \in Keys :
           Returns("get_json_value_for_key", key,
                   get_json_value_for_key(store, conn, key))

GetAllChatSessionsMetadata ==
    /\ pc = "idle"
    /\ Returns("get_all_chat_sessions_metadata", aichat_query_key,
               get_all_chat_sessions_metadata(store, conn))

GetAllPromptsRaw ==
    /\ pc = "idle"
    /\ Returns("get_all_prompts_raw", prompts_key, get_all_prompts_raw(store, conn))

GetAllGenerationsRaw ==
    /\ pc = "idle"
    /\ Returns("get_all_generations_raw", generations_key,
               get_all_generations_raw(store, conn))

QueryAllChatData ==
    /\ pc = "idle"
    /\ Returns("query_all_chat_data", "", query_all_chat_data(store, conn))

CloseConnection ==
    /\ pc = "idle"
    /\ Returns("close_connection", "", [c |-> close_connection(conn), val |-> PyNone])

Next ==
    \/ GetJsonValueForKey
    \/ GetAllChatSessionsMetadata
    \/ GetAllPromptsRaw
    \/ GetAllGenerationsRaw
    \/ QueryAllChatData
    \/ CloseConnection

Spec == Init /\ [][Next]_vars

\* ------------------------------------------------ the command line run
\* Largest --limit / --limit-db of a run (the smallest is -1).
MaxLimit == 2
Limits == -1..MaxLimit

\* One console.print: what it says (kind), the database it is about, and the
\* title, id and number it shows.
Msg(kind, db, title, id, n) ==
    [kind |-> kind, db |-> db, title |-> title, id |-> id, n |-> n]
DbMsg(kind, db) == Msg(kind, db, PyNone, PyNone, 0)

\* datetime.fromtimestamp(ms / 1000) if ms else ...: a truthy value that is
\* no number raises TypeError.
TimestampRaises(ms) == Truthy(ms) /\ ms.t # "int"

\* len(x) of session_info.get("turns", []).
PyLen(x) == IF x.t = "list" THEN Len(x.v) ELSE Cardinality(DOMAIN x.v)

\* The loop of discover_from_db over chat_sessions.
RECURSIVE DiscoverSessions(_, _, _, _)
DiscoverSessions(db, chat_sessions, count, out) ==
    IF chat_sessions = <<>> THEN [raised |-> FALSE, count |-> count, out |-> out]
    ELSE LET session_info == Head(chat_sessions)
             chat_title == DictGetDefault(session_info, "name", PyStr("Untitled Chat"))
             composer_id == DictGetDefault(session_info, "composerId", PyStr("UnknownID"))
             turns_count == PyLen(DictGetDefault(session_info, "turns", PyList(<<>>)))
         IN
         IF TimestampRaises(DictGet(session_info, "createdAt"))
            \/ TimestampRaises(DictGet(session_info, "lastUpdatedAt"))
         THEN [raised |-> TRUE, count |-> count, out |-> out]
         ELSE DiscoverSessions(
                  db, Tail(chat_sessions),
                  IF turns_count > 0 THEN count + 1 ELSE count,
                  Append(out, Msg(IF turns_count > 0 THEN "session_turns"
                                  ELSE "session_no_turns",
                                  db, chat_title, composer_id, turns_count)))

\* The body of the with block of discover_from_db, given what
\* query_all_chat_data returned or raised (q); c is the connection after
\* __exit__.
DiscoverBody(s, q) ==
    IF Raised(q.val)
    THEN [raised |-> TRUE, count |-> 0, out |-> <<>>]
    ELSE IF ~Truthy(q.val)
    THEN [raised |-> FALSE, count |-> 0, out |-> <<DbMsg("no_chat_data", s.path)>>]
    ELSE DiscoverSessions(
             s.path, q.val.v, 0,
             <<Msg("found_sessions", s.path, PyNone, PyNone, Len(q.val.v))>>)

\* A with block whose __exit__ leaves the connection as the body left it.
WithBlockNoExit(s, q, r) ==
    [r |-> r, c |-> q.c,
     call |-> Call("query_all_chat_data", "", Active(initialize_connection(s)), q.val)]

\* What a with block leaves: the body's outcome (r), the connection after
\* __exit__ and the call made on the instance.
WithBlock(s, q, r) ==
    [r |-> r, c |-> close_connection(q.c),
     call |-> Call("query_all_chat_data", "", Active(initialize_connection(s)), q.val)]

\* discover_from_db
DiscoverWith(s, q) == WithBlock(s, q, DiscoverBody(s, q))
discover_from_db(s) == DiscoverWith(s, query_all_chat_data(s, initialize_connection(s)))

\* formatter.format and file_saver.save of one session: they return, or raise
\* (save_raises holds the positions of the sessions where they raise).
SaveRaises(i, save_raises) == i \in save_raises

\* The loop of export over all_chat_sessions; i is the position of the head.
RECURSIVE ExportSessions(_, _, _, _, _, _)
ExportSessions(db, all_chat_sessions, i, save_raises, exported, out) ==
    IF all_chat_sessions = <<>>
    THEN [raised |-> FALSE, exported |-> exported, out |-> out]
    ELSE LET session_data == Head(all_chat_sessions)
             chat_title == DictGetDefault(session_data, "name", PyStr("Untitled Chat"))
             composer_id == DictGetDefault(session_data, "composerId", PyStr("UnknownID"))
             turns == DictGetDefault(session_data, "turns", PyList(<<>>))
             saved == Truthy(turns) /\ ~SaveRaises(i, save_raises)
             kind == IF ~Truthy(turns) THEN "skip_session"
                     ELSE IF saved THEN "exported" ELSE "export_error"
         IN
         IF TimestampRaises(DictGet(session_data, "createdAt"))
         THEN [raised |-> TRUE, exported |-> exported, out |-> out]
         ELSE ExportSessions(db, Tail(all_chat_sessions), i + 1, save_raises,
                  IF saved THEN exported + 1 ELSE exported,
                  Append(out, Msg(kind, db, chat_title, composer_id, 0)))

\* The sessions loop of export and the line after it.
ExportLoop(s, r) ==
    [raised |-> r.raised, exported |-> r.exported,
     out |-> IF ~r.raised /\ r.exported = 0
             THEN Append(r.out, DbMsg("none_exported", s.path)) ELSE r.out]

\* The body of one iteration of the loop of export, given what
\* query_all_chat_data returned or raised (q).
ExportBody(s, q, save_raises) ==
    IF Raised(q.val)
    THEN [raised |-> TRUE, exported |-> 0, out |-> <<DbMsg("processing", s.path)>>]
    ELSE IF ~Truthy(q.val)
    THEN [raised |-> FALSE, exported |-> 0,
          out |-> <<DbMsg("processing", s.path), DbMsg("no_chat_data", s.path)>>]
    ELSE ExportLoop(s, ExportSessions(s.path, q.val.v, 1, save_raises, 0,
                                      <<DbMsg("processing", s.path)>>))

\* One iteration of the loop of export: the with block of one database.
ExportWith(s, q, save_raises) == WithBlock(s, q, ExportBody(s, q, save_raises))
export_db(s, save_raises) ==
    ExportWith(s, query_all_chat_data(s, initialize_connection(s)), save_raises)

\* The state.vscdb files of a run; the file at position i has path PathOf(i).
PathOf(i) == "db" \o ToString(i)
OneSession == JsonText(PyDict([allComposers |-> PyList(<<CompA>>)]))
NoSession == JsonText(PyDict([allComposers |-> PyList(<<CompNoTitle>>)]))
Prompts == JsonText(PyList(<<Prompt>>))
Generations == JsonText(PyList(<<Generation>>))
RunStores(path) ==
    {Missing(path), Corrupt(path),
     Store(path, TRUE, TRUE, NoRow, NoRow, NoRow),
     Store(path, TRUE, TRUE, MalformedText, Prompts, Generations),
     Store(path, TRUE, TRUE, NoSession, Prompts, Generations),
     Store(path, TRUE, TRUE, OneSession, Prompts, Generations),
     Store(path, TRUE, TRUE, NoRow, MalformedText, Generations),
     Store(path, TRUE, TRUE, NoSession, MalformedText, Generations)}
DbLists ==
    {l \in UNION {[1..n -> UNION {RunStores(PathOf(i)) : i \in 1..MaxDbs}] :
                    n \in 0..MaxDbs} :
        \A i \in 1..Len(l) : l[i].path = PathOf(i)}

NoInstance == Missing("")

\* The db_path argument of export: none (""), a path that is no state.vscdb
\* file, or the path of a file.
DbPathArguments(command) ==
    IF command = "export"
    THEN {"", "nofile"} \cup {PathOf(i) : i \in 1..MaxDbs}
    ELSE {""}
\* specific_db_path.is_file() and specific_db_path.name == "state.vscdb"
IsStateFile(path) == \E i \in 1..Len(db_files) : db_files[i].path = path
StateFile(path) == db_files[CHOOSE i \in 1..Len(db_files) : db_files[i].path = path]

\* A run of `discover` or `export` that has found its state.vscdb files.
RunInit ==
    /\ store = NoInstance /\ conn = Closed /\ ret = NoCall /\ runs = <<>>
    /\ cmd \in {"discover", "export"}
    /\ pc = "start"
    /\ db_files \in DbLists
    /\ limit \in Limits
    /\ db_files_to_process = <<>>
    /\ processed_count = 0
    /\ total = 0
    /\ console = <<>>
    /\ db_path_str \in DbPathArguments(cmd)
    /\ reply = NoReply

\* discover, up to the loop.
DiscoverStart ==
    /\ cmd = "discover" /\ pc = "start"
    /\ IF db_files = <<>>
       THEN /\ pc' = "done"
            /\ console' = Append(console, DbMsg("no_db_files", ""))
       ELSE /\ pc' = "loop"
            /\ console' = Append(console, Msg("found_files", "", PyNone, PyNone,
                                              Len(db_files)))
    /\ UNCHANGED <<apiVars, cmd, db_files, limit, db_files_to_process,
                   processed_count, total, db_path_str, reply>>

\* The limit test that breaks the loop of discover.
LimitReached == limit > 0 /\ processed_count >= limit

\* The loop of discover after discover_from_db(db_file) gave w.
DiscoverStep(db_file, w) ==
    /\ store' = db_file
    /\ conn' = w.c
    /\ ret' = w.call
    /\ runs' = <<w.call.val>>
    /\ IF w.r.raised
       THEN /\ pc' = "crashed"
            /\ console' = console \o w.r.out
            /\ UNCHANGED <<processed_count, total>>
       ELSE /\ pc' = pc
            /\ total' = total + w.r.count
            /\ processed_count' = processed_count + 1
            /\ console' = (console \o w.r.out) \o <<DbMsg("separator", db_file.path)>>

\* One iteration of the loop of discover.
DiscoverDb ==
    /\ cmd = "discover" /\ pc = "loop"
    /\ processed_count < Len(db_files)
    /\ ~LimitReached
    /\ DiscoverStep(db_files[processed_count + 1],
                    discover_from_db(db_files[processed_count + 1]))
    /\ UNCHANGED <<cmd, db_files, limit, db_files_to_process, db_path_str, reply>>

\* The end of the loop of discover and the summary.
DiscoverFinish ==
    /\ cmd = "discover" /\ pc = "loop"
    /\ processed_count = Len(db_files) \/ LimitReached
    /\ pc' = "done"
    /\ console' =
           (IF processed_count < Len(db_files)
            THEN Append(console, Msg("limit_reached", "", PyNone, PyNone, limit))
            ELSE console)
           \o <<Msg(IF total = 0 THEN "none_found" ELSE "discovery_complete", "",
                    PyNone, PyNone, total)>>
    /\ UNCHANGED <<apiVars, cmd, db_files, limit, db_files_to_process,
                   processed_count, total, db_path_str, reply>>

\* export up to the loop: the files to process.
ExportStart ==
    /\ cmd = "export" /\ pc = "start"
    /\ IF db_path_str # ""
       THEN IF ~IsStateFile(db_path_str)
            THEN /\ pc' = "done"
                 /\ console' = Append(console, DbMsg("invalid_db_path", db_path_str))
                 /\ UNCHANGED db_files_to_process
            ELSE /\ pc' = "loop"
                 /\ db_files_to_process' = <<StateFile(db_path_str)>>
                 /\ UNCHANGED console
       ELSE IF db_files = <<>>
       THEN /\ pc' = "done"
            /\ console' = Append(console, DbMsg("no_db_files", ""))
            /\ UNCHANGED db_files_to_process
       ELSE /\ pc' = "loop"
            /\ db_files_to_process' =
                   IF limit > 0 /\ Len(db_files) > limit
                   THEN SubSeq(db_files, 1, limit) ELSE db_files
            /\ UNCHANGED console
    /\ UNCHANGED <<apiVars, cmd, db_files, limit, processed_count, total,
                   db_path_str, reply>>

\* The loop of export after the with block of db_file gave w.
ExportStep(db_file, w) ==
    /\ store' = db_file
    /\ conn' = w.c
    /\ ret' = w.call
    /\ runs' = <<w.call.val>>
    /\ processed_count' = processed_count + 1
    /\ console' = console \o w.r.out
    /\ total' = total + w.r.exported
    /\ pc' = IF w.r.raised THEN "crashed" ELSE pc

\* One iteration of the loop of export.
ExportDb ==
    /\ cmd = "export" /\ pc = "loop"
    /\ processed_count < Len(db_files_to_process)
    /\ \E save_raises \in SUBSET (1..MaxComposers) :
           ExportStep(db_files_to_process[processed_count + 1],
                      export_db(db_files_to_process[processed_count + 1], save_raises))
    /\ UNCHANGED <<cmd, db_files, limit, db_files_to_process, db_path_str, reply>>

\* The summary of export.
ExportFinish ==
    /\ cmd = "export" /\ pc = "loop"
    /\ processed_count = Len(db_files_to_process)
    /\ pc' = "done"
    /\ console' = Append(console,
                         Msg(IF total > 0 THEN "export_complete" ELSE "none_exported_total",
                             "", PyNone, PyNone, total))
    /\ UNCHANGED <<apiVars, cmd, db_files, limit, db_files_to_process,
                   processed_count, total, db_path_str, reply>>

RunNext ==
    \/ DiscoverStart
    \/ DiscoverDb
    \/ DiscoverFinish
    \/ ExportStart
    \/ ExportDb
    \/ ExportFinish

RunSpec == RunInit /\ [][RunNext]_vars

\* ------------------------------------------------------- the MCP server
\* The database identifiers of the requests: identifier i names the directory
\* of db_files[i]; an identifier beyond the list names no directory.
DbIdentifiers == 1..MaxDbs
\* The session ids of the requests.
SessionIds == {"a", "zz"}

\* get_db_path(db_identifier): the state.vscdb file of the directory.
get_db_path(db_identifier) == PathOf(db_identifier)
\* db_file_path.exists()
Exists(db_identifier) == db_identifier \in 1..Len(db_files)
\* str(db_file_path.parent)
DirOf(db_identifier) == "dir" \o ToString(db_identifier)
\* What VSCDBQuery is built on by the server: the directory, which sqlite
\* either refuses to open or opens and cannot read.
DirStores(db_identifier) ==
    {Missing(DirOf(db_identifier)), Corrupt(DirOf(db_identifier))}

NotFoundDict(db_identifier) ==
    PyDict([error |-> PyStr("Database file not found"),
            path |-> PyStr(get_db_path(db_identifier))])

\* list_sessions from what get_all_chat_sessions_metadata returned.
list_sessions_result(sessions_metadata) ==
    IF ~Truthy(sessions_metadata) THEN PyList(<<>>) ELSE sessions_metadata

\* The index of the first entry of allComposers that ends the search for
\* session_id: the entry of that id, or an entry without .get (0 if none).
FirstHit(items, session_id) ==
    LET hits == {i \in 1..Len(items) :
                   ~HasGet(items[i])
                   \/ DictGet(items[i], "composerId") = PyStr(session_id)} IN
    IF hits = {} THEN 0 ELSE CHOOSE i \in hits : \A j \in hits : i <= j

SessionNotFound(session_id) ==
    ErrorDict("Session ID " \o session_id \o " not found in composer metadata.")
AttributeErrorDict(type) ==
    ErrorDict("'" \o type \o "' object has no attribute 'get'")

\* export_chat_session once the session's metadata is found: the
\* reconstructed session of that id, or the metadata alone.
SessionReport(all_data, target_session_metadata, session_id) ==
    LET sessions == DictGetDefault(all_data, "sessions_with_reconstructed_turns",
                                   PyList(<<>>))
        found == IF Iterable(sessions)
                 THEN {i \in 1..Len(IterItems(sessions)) :
                         /\ HasGet(IterItems(sessions)[i])
                         /\ HasGet(DictGetDefault(IterItems(sessions)[i], "metadata",
                                                  EmptyDict))
                         /\ DictGet(DictGetDefault(IterItems(sessions)[i], "metadata",
                                                   EmptyDict), "composerId")
                                = PyStr(session_id)}
                 ELSE {} IN
    IF found # {}
    THEN IterItems(sessions)[CHOOSE i \in found : \A j \in found : i <= j]
    ELSE PyDict([metadata |-> target_session_metadata,
                 turns |-> PyList(<<>>),
                 warning |-> PyStr("Turns could not be reconstructed or were not found.")])

\* The search of export_chat_session in all_data["composer_data"].
SessionFromData(all_data, composer_data, session_id) ==
    IF ~Truthy(composer_data) THEN SessionNotFound(session_id)
    ELSE IF ~HasGet(composer_data)
    THEN AttributeErrorDict(composer_data.t)
    ELSE IF ~Iterable(DictGetDefault(composer_data, "allComposers", PyList(<<>>)))
    THEN ErrorDict("object is not iterable")
    ELSE LET items == IterItems(DictGetDefault(composer_data, "allComposers",
                                               PyList(<<>>)))
             hit == FirstHit(items, session_id) IN
         IF hit = 0 THEN SessionNotFound(session_id)
         ELSE IF ~HasGet(items[hit]) THEN AttributeErrorDict(items[hit].t)
         ELSE IF ~Truthy(items[hit]) THEN SessionNotFound(session_id)
         ELSE SessionReport(all_data, items[hit], session_id)

\* export_chat_session from what query_all_chat_data returned or raised:
\* all_data.get on a list raises AttributeError, which the except clause
\* turns into an error dict, as it does with what the query raised.
export_chat_session_result(all_data, session_id) ==
    IF Raised(all_data) THEN ErrorDict(all_data.v)
    ELSE IF ~HasGet(all_data) THEN AttributeErrorDict(all_data.t)
    ELSE SessionFromData(all_data, DictGet(all_data, "composer_data"), session_id)

\* The server with the databases of its data directory.
McpInit ==
    /\ store = NoInstance /\ conn = Closed /\ ret = NoCall /\ runs = <<>>
    /\ cmd = "mcp" /\ pc = "serving"
    /\ db_files \in DbLists
    /\ limit = 0 /\ db_files_to_process = <<>> /\ processed_count = 0
    /\ total = 0 /\ console = <<>> /\ db_path_str = ""
    /\ reply = NoReply

\* A tool that found no database file.
NoDatabase(tool, db_identifier, session_id, val) ==
    /\ reply' = Reply(tool, db_identifier, session_id, val)
    /\ UNCHANGED apiVars

\* list_sessions on an instance built on dir, after
\* get_all_chat_sessions_metadata gave m.
ListStep(dir, db_identifier, m) ==
    /\ store' = dir
    /\ conn' = m.c
    /\ ret' = Call("get_all_chat_sessions_metadata", aichat_query_key,
                   Active(initialize_connection(dir)), m.val)
    /\ runs' = <<>>
    /\ reply' = Reply("list_sessions", db_identifier, "", list_sessions_result(m.val))

\* list_sessions
ListSessions ==
    /\ cmd = "mcp" /\ pc = "serving"
    /\ \E db_identifier \in DbIdentifiers :
           IF ~Exists(db_identifier)
           THEN NoDatabase("list_sessions", db_identifier, "",
                           PyList(<<NotFoundDict(db_identifier)>>))
           ELSE \E dir \in DirStores(db_identifier) :
                    ListStep(dir, db_identifier,
                             get_all_chat_sessions_metadata(
                                 dir, initialize_connection(dir)))
    /\ UNCHANGED <<cmd, pc, db_files, limit, db_files_to_process, processed_count,
                   total, console, db_path_str>>

\* export_chat_session on an instance built on dir, after
\* query_all_chat_data gave q.
ExportSessionStep(dir, db_identifier, session_id, q) ==
    /\ store' = dir
    /\ conn' = q.c
    /\ ret' = Call("query_all_chat_data", "", Active(initialize_connection(dir)), q.val)
    /\ runs' = <<q.val>>
    /\ reply' = Reply("export_chat_session", db_identifier, session_id,
                      export_chat_session_result(q.val, session_id))

\* export_chat_session
ExportChatSession ==
    /\ cmd = "mcp" /\ pc = "serving"
    /\ \E db_identifier \in DbIdentifiers, session_id \in SessionIds :
           IF ~Exists(db_identifier)
           THEN NoDatabase("export_chat_session", db_identifier, session_id,
                           NotFoundDict(db_identifier))
           ELSE \E dir \in DirStores(db_identifier) :
                    ExportSessionStep(dir, db_identifier, session_id,
                                      query_all_chat_data(
                                          dir, initialize_connection(dir)))
    /\ UNCHANGED <<cmd, pc, db_files, limit, db_files_to_process, processed_count,
                   total, console, db_path_str>>

McpNext ==
    \/ ListSessions
    \/ ExportChatSession

McpSpec == McpInit /\ [][McpNext]_vars

\* =============================================================== claims
\* What the claims say about a store and a result.

\* The raw value decodes: valid text holding a JSON document.
Decodes(raw) == raw.col \in {"bytes", "str"} /\ raw.utf8 /\ raw.wellformed
\* The store can be opened and queried.
StoreReadable == store.openable /\ store.readable
MetaRow == store.rows[aichat_query_key]
\* The metadata blob is a JSON object holding a list of per-session objects.
IsSessionCatalog(j) ==
    /\ j.t = "dict"
    /\ "error" \notin DOMAIN j.v
    /\ "allComposers" \in DOMAIN j.v
    /\ j.v["allComposers"].t = "list"
    /\ \A i \in 1..Len(j.v["allComposers"].v) : j.v["allComposers"].v[i].t = "dict"
ValidMetadata == StoreReadable /\ Decodes(MetaRow) /\ IsSessionCatalog(MetaRow.json)
\* The descriptors of the metadata blob, in blob order.
Descriptors == MetaRow.json.v["allComposers"].v
\* A descriptor holds a non-empty id and a non-empty title.
HasIdAndTitle(e) ==
    /\ "composerId" \in DOMAIN e.v /\ e.v["composerId"] \notin {PyNone, PyStr(""), PyNum(0)}
    /\ "name" \in DOMAIN e.v /\ e.v["name"] \notin {PyNone, PyStr(""), PyNum(0)}
\* A descriptor carries an id field and a title field.
CarriesIdAndTitle(e) == "composerId" \in DOMAIN e.v /\ "name" \in DOMAIN e.v
\* The descriptors with id and title, in blob order.
FilteredDescriptors == SelectSeq(Descriptors, HasIdAndTitle)
\* A result entry r stands for descriptor e.
EntryOf(r, e) ==
    /\ r.t = "dict" /\ CarriesIdAndTitle(r) /\ CarriesIdAndTitle(e)
    /\ r.v["composerId"] = e.v["composerId"] /\ r.v["name"] = e.v["name"]
\* A list holding one error entry and nothing else.
SingleErrorEntry(x) == x.t = "list" /\ Len(x.v) = 1 /\ IsErrorDict(x.v[1])
Queried == ret.op = "query_all_chat_data"
CatalogLoaded == ret.op = "get_all_chat_sessions_metadata" /\ ret.active

\* C1: when the metadata blob decodes to a session catalog,
\* query_all_chat_data returns a list with exactly one entry per descriptor
\* that has id and title. (The claim as stated; the code raises instead.)
C1_OneEntryPerDescriptor ==
    (Queried /\ ValidMetadata) =>
        /\ ret.val.t = "list"
        /\ Len(ret.val.v) = Len(FilteredDescriptors)

\* C2 (as amended): the catalog load returns a list that holds a descriptor
\* if and only if the descriptor holds a non-empty id and a non-empty title;
\* object entries without them are dropped and the load is no error.
C2_FilterNonEmptyIdAndTitle ==
    (CatalogLoaded /\ ValidMetadata) =>
        /\ ret.val.t = "list"
        /\ Len(ret.val.v) = Cardinality({i \in 1..Len(Descriptors) :
                                           HasIdAndTitle(Descriptors[i])})
        /\ \A i \in 1..Len(Descriptors) :
               HasIdAndTitle(Descriptors[i]) <=>
                   \E j \in 1..Len(ret.val.v) : EntryOf(ret.val.v[j], Descriptors[i])

\* C2 witness: a load of two descriptors, one without a title, that returned
\* the other one alone.
C2_Witness ==
    /\ CatalogLoaded /\ ValidMetadata
    /\ Len(Descriptors) = 2
    /\ \E i \in 1..2 : "name" \notin DOMAIN Descriptors[i].v
    /\ ret.val.t = "list" /\ Len(ret.val.v) = 1

\* C2 as stated: a descriptor is in the result if and only if it carries
\* both fields, whatever they hold.
C2_FilterCarriesBothFields ==
    (CatalogLoaded /\ ValidMetadata) =>
        /\ ret.val.t = "list"
        /\ \A i \in 1..Len(Descriptors) :
               CarriesIdAndTitle(Descriptors[i]) <=>
                   \E j \in 1..Len(ret.val.v) : EntryOf(ret.val.v[j], Descriptors[i])

\* C3: the sessions query_all_chat_data returns are those of the descriptors
\* with id and title, in the order of the metadata blob.
C3_CatalogOrderPreserved ==
    (Queried /\ ValidMetadata) =>
        /\ ret.val.t = "list"
        /\ Len(ret.val.v) = Len(FilteredDescriptors)
        /\ \A i \in 1..Len(FilteredDescriptors) :
               EntryOf(ret.val.v[i], FilteredDescriptors[i])

\* C4: with the metadata key absent the catalog load returns the empty list
\* (no error value) and query_all_chat_data returns the empty list.
C4_AbsentKeyEmptyList ==
    (StoreReadable /\ MetaRow = NoRow) =>
        /\ CatalogLoaded => ret.val = PyList(<<>>)
        /\ Queried => ret.val = PyList(<<>>)

\* C5: with the metadata key present but malformed (bad UTF-8, unparseable,
\* or no object holding a list of per-session objects) the catalog load
\* returns an error and query_all_chat_data a single error entry.
MetadataMalformed ==
    /\ MetaRow.col \in {"bytes", "str"}
    /\ ~(Decodes(MetaRow) /\ MetaRow.json.t = "dict"
         /\ "allComposers" \in DOMAIN MetaRow.json.v
         /\ MetaRow.json.v["allComposers"].t = "list"
         /\ \A i \in 1..Len(MetaRow.json.v["allComposers"].v) :
                MetaRow.json.v["allComposers"].v[i].t = "dict")
C5_MalformedMetadataIsError ==
    (StoreReadable /\ MetadataMalformed) =>
        /\ CatalogLoaded => IsErrorDict(ret.val)
        /\ Queried => SingleErrorEntry(ret.val)

\* C6: get_all_prompts_raw and get_all_generations_raw answer an absent key
\* with None, and answer nothing else that way: a None tells the caller that
\* the key is absent and not that the read or the decoding failed or that
\* the value is no array.
C6_AbsentDistinguishable ==
    (ret.op \in {"get_all_prompts_raw", "get_all_generations_raw"}
     /\ ret.val = PyNone) =>
        (StoreReadable /\ store.rows[ret.key] = NoRow)

\* C7: a database whose prompts key holds malformed JSON gets a single fatal
\* error entry from query_all_chat_data, in a run over several databases.
PromptsMalformed ==
    LET raw == store.rows[prompts_key] IN
    StoreReadable /\ raw.col \in {"bytes", "str"} /\ raw.utf8 /\ ~raw.wellformed
C7_MalformedPromptsFatal ==
    (Queried /\ PromptsMalformed) => SingleErrorEntry(ret.val)

\* C8: no database stops a run of discover or export: the run does not
\* crash and ends with every database of its list processed.
ToProcess ==
    IF cmd = "export" THEN Len(db_files_to_process)
    ELSE IF limit > 0 /\ limit < Len(db_files) THEN limit ELSE Len(db_files)
C8_RunNeverStops ==
    /\ pc # "crashed"
    /\ pc = "done" => processed_count = ToProcess

\* C9: a fatal error entry is shown on the console as the failure of its
\* database, with the error message, and is not shown or counted as a session.
SessionKinds ==
    {"skip_session", "exported", "export_error", "session_turns",
     "session_no_turns", "found_sessions"}
C9_FatalEntryReported ==
    (pc \in {"loop", "done"} /\ Queried /\ SingleErrorEntry(ret.val)) =>
        /\ \E i \in 1..Len(console) :
               /\ console[i].db = store.path
               /\ ret.val.v[1].v["error"] \in {console[i].title, console[i].id}
        /\ \A i \in 1..Len(console) :
               console[i].db = store.path => console[i].kind \notin SessionKinds

\* C10: a session with id and title for which the store holds no prompts, no
\* generations and no session data is in the result of query_all_chat_data,
\* with no turns.
NothingStored ==
    store.rows[prompts_key] = NoRow /\ store.rows[generations_key] = NoRow
C10_EmptySessionKept ==
    (Queried /\ ValidMetadata /\ NothingStored) =>
        /\ ret.val.t = "list"
        /\ \A i \in 1..Len(FilteredDescriptors) :
               \E j \in 1..Len(ret.val.v) :
                   /\ EntryOf(ret.val.v[j], FilteredDescriptors[i])
                   /\ ~Truthy(DictGetDefault(ret.val.v[j], "turns", PyList(<<>>)))

\* C11: the per-session step of query_all_chat_data lets no exception out:
\* for a session catalog the call returns, and returns a list.
C11_NoExceptionPropagates ==
    (Queried /\ ValidMetadata) => (~Raised(ret.val) /\ ret.val.t = "list")

\* C12: every session with id and title is in the result of
\* query_all_chat_data, and each session entry has a null error exactly
\* when its session_data is not null.
IsSessionEntry(r) == r.t = "dict" /\ "session_data" \in DOMAIN r.v
ErrorMarkerConsistent(r) ==
    /\ "error" \in DOMAIN r.v
    /\ (r.v["error"] = PyNone) <=> (r.v["session_data"] # PyNone)
C12_ErrorMarkerNotOmitted ==
    (Queried /\ ValidMetadata) =>
        /\ ret.val.t = "list"
        /\ \A i \in 1..Len(FilteredDescriptors) :
               \E j \in 1..Len(ret.val.v) :
                   /\ EntryOf(ret.val.v[j], FilteredDescriptors[i])
                   /\ IsSessionEntry(ret.val.v[j])
        /\ \A j \in 1..Len(ret.val.v) :
               IsSessionEntry(ret.val.v[j]) => ErrorMarkerConsistent(ret.val.v[j])

\* C13: on an unchanged store every run of query_all_chat_data on an
\* instance gives what the first run gave, and what the first run on a
\* fresh instance gives (the same list in the same order, or the same
\* exception).
FreshRun == query_all_chat_data(store, initialize_connection(store)).val
C13_QueryIdempotent ==
    /\ \A i, j \in 1..Len(runs) : runs[i] = runs[j]
    /\ Queried => (ret.val = runs[1] /\ ret.val = FreshRun)

\* C13 witness: a second run on the same instance, made after the
\* connection was closed, that gave the list the first run gave.
C13_Witness ==
    /\ Len(runs) = 2 /\ Queried /\ ~ret.active /\ store.openable
    /\ runs[1] = runs[2] /\ ret.val = runs[1] /\ ret.val.t = "list"

\* C14: no operation on an instance changes the store, and a read of a key
\* returns what a read of that key on a fresh instance returns, also after
\* the connection was closed and opened again.
FreshRead(key) == get_json_value_for_key(store, initialize_connection(store), key).val
ReadsRepeat ==
    /\ ret.op = "get_json_value_for_key" => ret.val = FreshRead(ret.key)
    /\ ret.op \in {"get_all_prompts_raw", "get_all_generations_raw"} =>
           ret.val = RawListOrNone(FreshRead(ret.key))
C15_WithBlockReleases ==
    (pc \in {"loop", "crashed", "done"} /\ Queried) =>
        /\ ~conn.conn /\ ~conn.cursor
        /\ store.openable => ret.active

\* C15 witness: an exception escaped the with block of a database whose
\* connection was open, and the connection is released.
C15_Witness ==
    /\ pc = "crashed" /\ Queried /\ Raised(ret.val) /\ ret.active
    /\ conn = Closed

\* C16: on an instance used without a with block, query_all_chat_data
\* leaves the connection closed when it ends, however it ends.
C16_QueryLeavesClosed ==
    (pc = "idle" /\ Queried) => ~Active(conn)

\* The elements of the array under a key (none if it holds no array).
ArrayUnder(key) ==
    IF StoreReadable /\ Decodes(store.rows[key]) /\ store.rows[key].json.t = "list"
    THEN store.rows[key].json.v ELSE <<>>
\* The element names session id as the session it belongs to.
HintedFor(x, id) ==
    x.t = "dict" /\ "composerId" \in DOMAIN x.v /\ x.v["composerId"] = id
HasHint(x) == x.t = "dict" /\ "composerId" \in DOMAIN x.v
\* How many elements under key name session id.
CountFor(key, id) ==
    Cardinality({i \in 1..Len(ArrayUnder(key)) : HintedFor(ArrayUnder(key)[i], id)})
\* The turns of a result entry, as export reads them.
TurnsOf(r) == DictGetDefault(r, "turns", PyList(<<>>))
TurnTime(turn) == DictGet(turn, "timestamp")
Min(a, b) == IF a < b THEN a ELSE b

\* C17: a session whose prompts and generations name it, n of each, has
\* exactly n turns in the result of query_all_chat_data, in non-decreasing
\* order of timestamp.
C17_HintedTurnCount ==
    (Queried /\ ValidMetadata) =>
        \A i \in 1..Len(FilteredDescriptors) :
            LET id == FilteredDescriptors[i].v["composerId"]
                n == CountFor(prompts_key, id) IN
            (n > 0 /\ n = CountFor(generations_key, id)) =>
                /\ ret.val.t = "list"
                /\ \E j \in 1..Len(ret.val.v) :
                       /\ EntryOf(ret.val.v[j], FilteredDescriptors[i])
                       /\ TurnsOf(ret.val.v[j]).t = "list"
                       /\ Len(TurnsOf(ret.val.v[j]).v) = n
                       /\ \A k \in 1..(n - 1) :
                              TurnTime(TurnsOf(ret.val.v[j]).v[k]).v
                                  <= TurnTime(TurnsOf(ret.val.v[j]).v[k + 1]).v

\* C18: with one session and prompts and generations that name no session,
\* the session has min(#prompts, #generations) turns in the result of
\* query_all_chat_data (2 for 3 prompts and 2 generations), and a non-empty
\* reconstruction warning when the two counts differ.
NoHints ==
    /\ \A i \in 1..Len(ArrayUnder(prompts_key)) : ~HasHint(ArrayUnder(prompts_key)[i])
    /\ \A i \in 1..Len(ArrayUnder(generations_key)) :
           ~HasHint(ArrayUnder(generations_key)[i])
C18_PositionalFallback ==
    (Queried /\ ValidMetadata /\ Len(FilteredDescriptors) = 1 /\ NoHints
     /\ Len(ArrayUnder(prompts_key)) + Len(ArrayUnder(generations_key)) > 0) =>
        /\ ret.val.t = "list" /\ Len(ret.val.v) = 1
        /\ TurnsOf(ret.val.v[1]).t = "list"
        /\ Len(TurnsOf(ret.val.v[1]).v) =
               Min(Len(ArrayUnder(prompts_key)), Len(ArrayUnder(generations_key)))
        /\ Len(ArrayUnder(prompts_key)) # Len(ArrayUnder(generations_key)) =>
               Truthy(DictGet(ret.val.v[1], "reconstructionWarning"))

\* C19: one entry of the metadata list that is no JSON object does not fail
\* the catalog load: the load returns a list that holds every entry with id
\* and title.
MetadataIsList ==
    /\ StoreReadable /\ Decodes(MetaRow) /\ MetaRow.json.t = "dict"
    /\ "error" \notin DOMAIN MetaRow.json.v
    /\ "allComposers" \in DOMAIN MetaRow.json.v
    /\ MetaRow.json.v["allComposers"].t = "list"
C19_BadEntrySkipped ==
    (CatalogLoaded /\ MetadataIsList) =>
        /\ ret.val.t = "list"
        /\ \A i \in 1..Len(Descriptors) :
               (Descriptors[i].t = "dict" /\ HasIdAndTitle(Descriptors[i])) =>
                   \E j \in 1..Len(ret.val.v) : EntryOf(ret.val.v[j], Descriptors[i])

\* C20: get_all_prompts_raw and get_all_generations_raw return the elements
\* of the stored array that are JSON objects, in array order, and skip the
\* others.
IsObject(x) == x.t = "dict"
C20_BadElementSkipped ==
    (ret.op \in {"get_all_prompts_raw", "get_all_generations_raw"}
     /\ StoreReadable /\ Decodes(store.rows[ret.key])
     /\ store.rows[ret.key].json.t = "list") =>
        ret.val = PyList(SelectSeq(store.rows[ret.key].json.v, IsObject))

\* C21: a run processes the first `limit` of the files found when the limit
\* is positive, all of them when it is 0 or negative, and exactly the named
\* file when export is given a db path, whatever the limit.
ExpectedDbs ==
    IF cmd = "export" /\ db_path_str # ""
    THEN IF IsStateFile(db_path_str) THEN 1 ELSE 0
    ELSE IF limit > 0 /\ limit < Len(db_files) THEN limit ELSE Len(db_files)
ExpectedFiles ==
    IF cmd = "export" /\ db_path_str # ""
    THEN IF IsStateFile(db_path_str) THEN <<StateFile(db_path_str)>> ELSE <<>>
    ELSE SubSeq(db_files, 1, ExpectedDbs)
C21_LimitRespected ==
    /\ processed_count <= ExpectedDbs
    /\ (cmd = "export" /\ pc = "loop") => db_files_to_process = ExpectedFiles
    /\ Queried =>
           \E i \in 1..Len(ExpectedFiles) :
               store = ExpectedFiles[i] /\ i \in {processed_count, processed_count + 1}
    /\ pc \in {"done", "crashed"} => processed_count = ExpectedDbs

\* The database file a request names, and the sessions with id and title of
\* its metadata, in catalog order.
RequestedFile == db_files[reply.db_identifier]
FileReadable(s) == s.openable /\ s.readable
FileHasCatalog(s) ==
    /\ FileReadable(s) /\ Decodes(s.rows[aichat_query_key])
    /\ IsSessionCatalog(s.rows[aichat_query_key].json)
FileCatalog(s) ==
    IF FileHasCatalog(s)
    THEN SelectSeq(s.rows[aichat_query_key].json.v["allComposers"].v, HasIdAndTitle)
    ELSE <<>>
SessionInFile(s, session_id) ==
    \E i \in 1..Len(FileCatalog(s)) :
        FileCatalog(s)[i].v["composerId"] = PyStr(session_id)

\* C22: export_chat_session on a readable database returns a report that
\* the session was not found, naming the session id, when the id is not in
\* the metadata, and the data of the session (no error) when it is.
C22_SessionNotFoundReport ==
    (reply.tool = "export_chat_session" /\ Exists(reply.db_identifier)
     /\ FileReadable(RequestedFile)) =>
        IF SessionInFile(RequestedFile, reply.session_id)
        THEN /\ ~IsErrorDict(reply.val)
             /\ reply.val.t = "dict" /\ "metadata" \in DOMAIN reply.val.v
             /\ DictGet(reply.val.v["metadata"], "composerId") = PyStr(reply.session_id)
        ELSE reply.val = SessionNotFound(reply.session_id)

\* C23: list_sessions on a database file that exists and is readable returns
\* the session metadata of the file, one entry per descriptor with id and
\* title, in catalog order, and no error entry.
C23_ListSessionsReturnsCatalog ==
    (reply.tool = "list_sessions" /\ Exists(reply.db_identifier)
     /\ FileReadable(RequestedFile)
     /\ (FileHasCatalog(RequestedFile)
         \/ RequestedFile.rows[aichat_query_key] = NoRow)) =>
        /\ reply.val.t = "list"
        /\ Len(reply.val.v) = Len(FileCatalog(RequestedFile))
        /\ \A i \in 1..Len(reply.val.v) :
               EntryOf(reply.val.v[i], FileCatalog(RequestedFile)[i])

StoredErrorObject ==
    /\ StoreReadable /\ Decodes(MetaRow)
    /\ MetaRow.json.t = "dict" /\ "error" \in DOMAIN MetaRow.json.v
C25_StoredErrorKeyIsFailure ==
    StoredErrorObject =>
        /\ CatalogLoaded => ret.val = MetaRow.json
        /\ Queried =>
               /\ SingleErrorEntry(ret.val)
               /\ ret.val.v[1].v["error"] =
                      PyStr("Metadata fetch failed: " \o MetaRow.json.v["error"].v)

\* C25 witness: query_all_chat_data on a stored object that holds both an
\* 'error' key and a session list returned the single error entry.
C25_Witness ==
    /\ Queried /\ StoredErrorObject
    /\ "allComposers" \in DOMAIN MetaRow.json.v
    /\ MetaRow.json.v["allComposers"] = PyList(<<CompA>>)
    /\ SingleErrorEntry(ret.val)

\* C26: a read (get_json_value_for_key, get_all_prompts_raw,
\* get_all_generations_raw) made after the connection was closed opens it
\* again and returns with it open, and an open connection is released by
\* close_connection alone.
IsRead == ret.op \in {"get_json_value_for_key", "get_all_prompts_raw",
                      "get_all_generations_raw"}
ReadReopens == (IsRead /\ ~ret.active /\ store.openable) => Active(conn)
ReleasedByClose == (Active(conn) /\ ~Active(conn')) => ret'.op = "close_connection"
C26_ClosedNotAbsorbing == []ReadReopens /\ [][ReleasedByClose]_vars

\* C26 witness: get_all_generations_raw found the connection closed and
\* left it open.
C26_Witness ==
    /\ ret.op = "get_all_generations_raw" /\ ~ret.active /\ Active(conn)

\* C27: conn and cursor are both set or both None after the constructor and
\* after every operation; both are None when the file cannot be opened and
\* after close_connection, also on a connection that was closed already.
C27_ConnAndCursorTogether ==
    /\ conn.conn = conn.cursor
    /\ ~store.openable => conn = Closed
    /\ ret.op = "close_connection" => conn = Closed

\* C27 witness: close_connection on a connection that was closed already.
C27_Witness ==
    /\ ret.op = "close_connection" /\ ~ret.active /\ store.openable
    /\ conn = Closed

====
